---- MODULE Spec2Model ----
(***************************************************************************)
(* CustomElementsLazyLoader (src/src/custom-elements-lazy-loader.mjs):     *)
(* a MutationObserver that scans / observes a DOM subtree, resolves a      *)
(* custom-element name per element, gates it (#shouldHandle) and runs the  *)
(* asynchronous pipeline urlResolver -> loader -> customElements.define.   *)
(*                                                                         *)
(* Strings are sequences of character codes, so that toLowerCase(),        *)
(* charCodeAt(0) and indexOf('-') are computed as the code computes them.  *)
(***************************************************************************)
EXTENDS Integers, Sequences, FiniteSets, Bags, TLC

(* ------------------------------------------------------------------ *)
(* Bounds of the model                                                 *)
(* ------------------------------------------------------------------ *)
MaxOps      == 3      \* observe() calls and DOM mutations per behaviour
MaxInflight == 3      \* pipeline runs that may be pending at the same time
MaxNameLen  == 3      \* length of the generated names

(* ------------------------------------------------------------------ *)
(* Strings                                                             *)
(* ------------------------------------------------------------------ *)
A_CHAR       == 97     \* 'a'.codePointAt(0)
Z_CHAR       == 122    \* 'z'.codePointAt(0)
HYPHEN       == 45     \* '-'
UPPER_A      == 65     \* 'A'
UPPER_Z      == 90     \* 'Z'
CASE_OFFSET  == 32     \* 'a' - 'A'

S_x_a    == <<120,45,97>>                 \* "x-a"
S_X_A    == <<88,45,65>>                  \* "X-A"
S_y_b    == <<121,45,98>>                 \* "y-b"
S_Y_B    == <<89,45,66>>                  \* "Y-B"
S_z_c    == <<122,45,99>>                 \* "z-c"
S_Z_C    == <<90,45,67>>                  \* "Z-C"
S_FONT_FACE == <<70,79,78,84,45,70,65,67,69>>   \* "FONT-FACE"
S_DIV    == <<68,73,86>>                  \* "DIV"
S_div    == <<100,105,118>>               \* "div"
S_empty  == <<>>                          \* ""
S_dotjs  == <<46,106,115>>                \* ".js"
S_origin == <<104,116,116,112,58,47,47,104,47>>  \* "http://h/"  (window.location)
S_scheme == <<104,116,116,112,58,47,47>>  \* "http://"
S_js     == <<106,115,47>>                \* "js/"
S_elemjs == <<45,101,108,101,109,101,110,116,46,106,115>> \* "-element.js"

INVALID_CUSTOM_ELEMENT_NAMES ==
    { <<97,110,110,111,116,97,116,105,111,110,45,120,109,108>>,        \* annotation-xml
      <<99,111,108,111,114,45,112,114,111,102,105,108,101>>,           \* color-profile
      <<102,111,110,116,45,102,97,99,101>>,                            \* font-face
      <<102,111,110,116,45,102,97,99,101,45,115,114,99>>,              \* font-face-src
      <<102,111,110,116,45,102,97,99,101,45,117,114,105>>,             \* font-face-uri
      <<102,111,110,116,45,102,97,99,101,45,102,111,114,109,97,116>>,  \* font-face-format
      <<102,111,110,116,45,102,97,99,101,45,110,97,109,101>>,          \* font-face-name
      <<109,105,115,115,105,110,103,45,103,108,121,112,104>> }         \* missing-glyph

\* String.prototype.toLowerCase, on ASCII
ToLowerCase(s) ==
    [i \in DOMAIN s |-> IF UPPER_A <= s[i] /\ s[i] <= UPPER_Z THEN s[i] + CASE_OFFSET ELSE s[i]]

\* String.prototype.indexOf(ch): 0-based index of the first occurrence, -1 if none
IndexOf(s, ch) ==
    IF \E i \in DOMAIN s : s[i] = ch
    THEN (CHOOSE i \in DOMAIN s : s[i] = ch /\ \A j \in 1..(i - 1) : s[j] # ch) - 1
    ELSE -1

\* !!name for a string: the empty string is falsy
Truthy(name) == Len(name) > 0

(* ------------------------------------------------------------------ *)
(* The document: a fixed universe of nodes                             *)
(* ------------------------------------------------------------------ *)
\* JavaScript values are records tagged with their type
Undefined == [type |-> "undefined"]
Null      == [type |-> "null"]
Thrown    == [type |-> "throw"]      \* the call threw instead of returning

StringValue(s) == [type |-> "string", value |-> s]
UrlValue(h)    == [type |-> "URL", href |-> h]
Ctor(h)        == [type |-> "class", module |-> h]

ELEMENT_NODE == "ELEMENT_NODE"
TEXT_NODE    == "TEXT_NODE"

Nodes    == 1..8

\* node 8 is a text node, every other node is an element
nodeType == [n \in Nodes |-> IF n = 8 THEN TEXT_NODE ELSE ELEMENT_NODE]

\* Element.tagName as the platform reports it
tagNameOf ==
    [n \in Nodes |->
        CASE n = 1 -> S_DIV
          [] n = 2 -> S_X_A
          [] n = 3 -> S_DIV
          [] n = 4 -> S_DIV
          [] n = 5 -> S_FONT_FACE
          [] n = 6 -> S_Z_C
          [] n = 7 -> S_y_b
          [] OTHER -> S_empty]

\* 1 > (2 > (3[is=Y-B] > 4[is=""]), 5)   and detached   6 > 7,   8 (text)
InitChildNodes ==
    [n \in Nodes |->
        CASE n = 1 -> <<2, 5>>
          [] n = 2 -> <<3>>
          [] n = 3 -> <<4>>
          [] n = 6 -> <<7>>
          [] OTHER -> <<>>]

InitIsAttr ==
    [n \in Nodes |->
        CASE n = 3 -> StringValue(S_Y_B)
          [] n = 4 -> StringValue(S_empty)
          [] OTHER -> Null]

VARIABLES
    childNodes,     \* Node.childNodes of every node, in document order
    isAttr,         \* getAttribute('is') of every node: a string or null
    registry,       \* customElements: name -> definition
    filter,         \* #filter
    urlResolver,    \* #urlResolver
    loader,         \* #loader
    registered,     \* the observer's registrations: target -> options
    records,        \* the observer's queue of MutationRecords
    inflight,       \* bag of pipeline runs between #define() and their completion
    calls,          \* what the last step called, in call order
    lastOp,         \* the operation the last step performed
    defineIssued,   \* names customElements.define has been called for so far
    nOps,           \* observe() calls and DOM mutations so far
    observed,       \* observe() has been called
    targets         \* the targets observe() was called for since the last
                    \* disconnect(), the most recent one last

vars == << childNodes, isAttr, registry, filter, urlResolver, loader, registered,
           records, inflight, calls, lastOp, defineIssued, nOps, observed, targets >>

Range(s) == { s[i] : i \in DOMAIN s }

IsElement(n) == nodeType[n] = ELEMENT_NODE

\* Element.children: the child nodes that are elements
Children(n) == SelectSeq(childNodes[n], IsElement)

HasParent(n) == \E p \in Nodes : n \in Range(childNodes[p])
ParentOf(n)  == CHOOSE p \in Nodes : n \in Range(childNodes[p])

RECURSIVE Ancestors(_)
Ancestors(n) == IF HasParent(n) THEN {ParentOf(n)} \cup Ancestors(ParentOf(n)) ELSE {}

RECURSIVE Flatten(_)
Flatten(ss) == IF ss = <<>> THEN <<>> ELSE Head(ss) \o Flatten(Tail(ss))

(* ------------------------------------------------------------------ *)
(* Configuration: the shapes #resolveConstructorOptions produces        *)
(* ------------------------------------------------------------------ *)
NoFilter == [kind |-> "null"]       \* options.filter absent: defaults.filter

\* filter given as string[]: ( name ) => options.filter.includes(name)
ListFilter(list) == [kind |-> "list", allowed |-> list]
\* filter given as a function, here one that accepts exactly the names of a set
FunctionFilter(accepted) == [kind |-> "function", allowed |-> accepted]

\* this.#filter(name)
CallFilter(name) == name \in filter.allowed

HasPrefix(s, p) == Len(s) >= Len(p) /\ SubSeq(s, 1, Len(p)) = p

\* new URL(url, window.location): an absolute URL needs a host, any other
\* string is resolved against the location
ParseUrl(s) ==
    IF HasPrefix(s, S_scheme)
    THEN IF Len(s) = Len(S_scheme) THEN Thrown ELSE UrlValue(s)
    ELSE UrlValue(S_origin \o s)

\* static #resolveUrlDefault( name )
resolveUrlDefault(name) == ParseUrl(S_js \o name \o S_elemjs)

\* this.#urlResolver(name): the default, a caller's function, or a Map lookup
CallUrlResolver(name) ==
    CASE urlResolver.kind = "default"  -> resolveUrlDefault(name)
      [] urlResolver.kind = "function" ->
            IF name \in urlResolver.throwsFor THEN Thrown
            ELSE StringValue(name \o S_dotjs)
      [] urlResolver.kind = "map" ->
            IF name \in DOMAIN urlResolver.table THEN urlResolver.table[name]
            ELSE Undefined

\* what a call this.#loader(url) does: throws, or returns a promise that
\* later settles with a class, null, undefined or a rejection
LoaderOutcome(url) ==
    IF url.href \in DOMAIN loader.outcome THEN loader.outcome[url.href] ELSE "class"

(* ------------------------------------------------------------------ *)
(* The engine's pure helpers                                           *)
(* ------------------------------------------------------------------ *)
\* variant: the attribute is tested with if (isAttr), so '' counts as absent
ResolveNames_TruthyIs(element) ==
    LET tagName == ToLowerCase(tagNameOf[element])
        attr    == isAttr[element]
    IN  IF attr.type = "string" /\ attr.value # <<>>
        THEN [elementName |-> ToLowerCase(attr.value), tagName |-> tagName,
              isAttr |-> StringValue(ToLowerCase(attr.value))]
        ELSE [elementName |-> tagName, tagName |-> tagName, isAttr |-> Undefined]

\* #resolveNames( element )
ResolveNames(element) ==
    LET tagName == ToLowerCase(tagNameOf[element])
        attr    == isAttr[element]
    IN  IF attr.type = "string"
        THEN [elementName |-> ToLowerCase(attr.value), tagName |-> tagName,
              isAttr |-> StringValue(ToLowerCase(attr.value))]
        ELSE [elementName |-> tagName, tagName |-> tagName, isAttr |-> Undefined]

\* variant: the first character is compared with A_CHAR < firstChar
IsCustomElementName_FirstCharOffByOne(name) ==
    /\ Len(name) > 0
    /\ A_CHAR < name[1] /\ name[1] <= Z_CHAR
    /\ IndexOf(name, HYPHEN) > 0
    /\ name \notin INVALID_CUSTOM_ELEMENT_NAMES

\* #isCustomElementName( name ), for a name that is a string
IsCustomElementName(name) ==
    /\ Len(name) > 0              \* charCodeAt(0) of "" is NaN, every comparison false
    /\ A_CHAR <= name[1] /\ name[1] <= Z_CHAR
    /\ IndexOf(name, HYPHEN) > 0
    /\ name \notin INVALID_CUSTOM_ELEMENT_NAMES

\* #isCustomElementName( name ), for any value: typeof name !== 'string' first
IsCustomElementNameOfValue(v) ==
    IF v.type # "string" THEN FALSE ELSE IsCustomElementName(v.value)

\* customElements.get(name)
RegistryGet(name) == IF name \in DOMAIN registry THEN registry[name] ELSE Undefined

\* #isRegistered( name )
IsRegistered(name) == Truthy(name) /\ RegistryGet(name) # Undefined

\* variant: the gate without the !this.#isRegistered(name) conjunct
ReachesFilter_NoRegistryCheck(name) == Truthy(name) /\ IsCustomElementName(name)

\* the conjuncts of #shouldHandle that are evaluated before the filter
ReachesFilter(name) ==
    Truthy(name) /\ IsCustomElementName(name) /\ ~IsRegistered(name)

\* variant: the configured filter is not consulted
ShouldHandle_IgnoresFilter(name) ==
    Truthy(name) /\ IsCustomElementName(name) /\ ~IsRegistered(name)

\* #shouldHandle( name )
ShouldHandle(name) ==
    ReachesFilter(name) /\ (filter.kind = "null" \/ CallFilter(name))

(* ------------------------------------------------------------------ *)
(* One event: #onElementAdded / #onIsAttributeChanged / a #scan visit  *)
(* ------------------------------------------------------------------ *)
VisitCall(element, name)    == [op |-> "visit", name |-> name, element |-> element]
FilterCall(name)            == [op |-> "filter", name |-> name]
UrlResolverCall(name)       == [op |-> "urlResolver", name |-> name]
LoaderCall(name, url)       == [op |-> "loader", name |-> name, url |-> url]
DefineCall(name, ctor, ext) == [op |-> "define", name |-> name, ctor |-> ctor, extends |-> ext]
WarnCall(name)              == [op |-> "warn", name |-> name]
ErrorCall(name, cause)      == [op |-> "error", name |-> name, cause |-> cause]

\* a pipeline run: the names #define( names ) closes over, the state of the
\* promise of #load, and the element the event was raised for with whether it
\* had the attribute then
Run(names, element, phase, url, cause) ==
    [names |-> names, element |-> element, hadIs |-> isAttr[element].type = "string",
     phase |-> phase, url |-> url, cause |-> cause]

\* variant: what the urlResolver returned is handed to the loader unchecked
LoadStart_NoTypeCheck(names, element) ==
    LET name     == names.elementName
        resolved == CallUrlResolver(name)
        url      == IF resolved.type = "string" THEN ParseUrl(resolved.value) ELSE resolved
    IN  CASE resolved.type = "throw" ->
                [calls |-> <<UrlResolverCall(name)>>,
                 run   |-> Run(names, element, "rejected", Undefined, "urlResolver threw")]
          [] resolved.type = "string" /\ url.type = "throw" ->
                [calls |-> <<UrlResolverCall(name)>>,
                 run   |-> Run(names, element, "rejected", resolved, "SyntaxError")]
          [] resolved.type # "throw" /\ url.type # "URL" /\ url.type # "throw" ->
                [calls |-> <<UrlResolverCall(name), LoaderCall(name, url)>>,
                 run   |-> Run(names, element, "rejected", url, "Error loading")]
          [] OTHER ->
                [calls |-> <<UrlResolverCall(name), LoaderCall(name, url)>>,
                 run   |-> IF LoaderOutcome(url) = "throw"
                           THEN Run(names, element, "rejected", url, "Error loading")
                           ELSE Run(names, element, "loading", url, "none")]

\* async #load( elementName ), up to its first suspension: the calls it makes
\* and the state its promise is left in
LoadStart(names, element) ==
    LET name     == names.elementName
        resolved == CallUrlResolver(name)
        url      == IF resolved.type = "string" THEN ParseUrl(resolved.value) ELSE resolved
    IN  CASE resolved.type = "throw" ->
                [calls |-> <<UrlResolverCall(name)>>,
                 run   |-> Run(names, element, "rejected", Undefined, "urlResolver threw")]
          [] resolved.type = "string" /\ url.type = "throw" ->
                [calls |-> <<UrlResolverCall(name)>>,
                 run   |-> Run(names, element, "rejected", resolved, "SyntaxError")]
          [] resolved.type # "throw" /\ url.type # "URL" /\ url.type # "throw" ->
                [calls |-> <<UrlResolverCall(name)>>,
                 run   |-> Run(names, element, "rejected", url, "TypeError")]
          [] OTHER ->
                [calls |-> <<UrlResolverCall(name), LoaderCall(name, url)>>,
                 run   |-> IF LoaderOutcome(url) = "throw"
                           THEN Run(names, element, "rejected", url, "Error loading")
                           ELSE Run(names, element, "loading", url, "none")]

\* #onElementAdded( element ) and #onIsAttributeChanged( element ), which is
\* also what #scan does for each element it visits
OnElement(element) ==
    LET names == ResolveNames(element)
        name  == names.elementName
        gate  == IF ReachesFilter(name) /\ filter.kind # "null"
                 THEN <<FilterCall(name)>> ELSE <<>>
    IN  IF ShouldHandle(name)
        THEN LET started == LoadStart(names, element)
             IN  [calls |-> <<VisitCall(element, name)>> \o gate \o started.calls,
                  runs  |-> <<started.run>>]
        ELSE [calls |-> <<VisitCall(element, name)>> \o gate, runs |-> <<>>]

\* variant: the subtree flag is ignored, children are always visited
RECURSIVE ScanOrder_IgnoresSubtree(_, _)
ScanOrder_IgnoresSubtree(elements, subtree) ==
    Flatten([i \in DOMAIN elements |->
        <<elements[i]>> \o
        Flatten([j \in DOMAIN Children(elements[i]) |->
            <<Children(elements[i])[j]>>
            \o ScanOrder_IgnoresSubtree(Children(Children(elements[i])[j]), TRUE)])])

\* variant: the recursive call this.#scan(child.children, true) is missing
ScanOrder_NoRecursion(elements, subtree) ==
    Flatten([i \in DOMAIN elements |->
        <<elements[i]>> \o (IF subtree THEN Children(elements[i]) ELSE <<>>)])

\* the elements #scan( elements, subtree ) visits, in visiting order
RECURSIVE ScanOrder(_, _)
ScanOrder(elements, subtree) ==
    Flatten([i \in DOMAIN elements |->
        <<elements[i]>> \o
        (IF subtree
         THEN Flatten([j \in DOMAIN Children(elements[i]) |->
                  <<Children(elements[i])[j]>>
                  \o ScanOrder(Children(Children(elements[i])[j]), TRUE)])
         ELSE <<>>)])

\* variant: only the first added node of a childList record is handled
BatchEvents_FirstAddedOnly(batch) ==
    Flatten([ri \in DOMAIN batch |->
        IF batch[ri].type = "attributes" THEN <<batch[ri].target>>
        ELSE (IF batch[ri].addedNodes # <<>> /\ IsElement(batch[ri].addedNodes[1])
                 THEN <<batch[ri].addedNodes[1]>> ELSE <<>>)])

\* variant: of the attribute records of one target only the last is handled
BatchEvents_LastPerTarget(batch) ==
    Flatten([ri \in DOMAIN batch |->
        IF batch[ri].type = "attributes"
        THEN (IF \E rj \in DOMAIN batch :
                     rj > ri /\ batch[rj].type = "attributes"
                             /\ batch[rj].target = batch[ri].target
              THEN <<>> ELSE <<batch[ri].target>>)
        ELSE SelectSeq(batch[ri].addedNodes, IsElement)])

\* the events of a batch of records, in the order mutationCallback raises them
BatchEvents(batch) ==
    Flatten([ri \in DOMAIN batch |->
        IF batch[ri].type = "attributes" THEN <<batch[ri].target>>
        ELSE SelectSeq(batch[ri].addedNodes, IsElement)])

\* variant: of the elements of one name only the first is handled, as if the
\* name were marked at once
HandleAll_OncePerName(elements) ==
    LET first == { i \in DOMAIN elements :
                     \A j \in 1..(i - 1) :
                        ResolveNames(elements[j]).elementName
                           # ResolveNames(elements[i]).elementName }
    IN  [calls |-> Flatten([i \in DOMAIN elements |->
                      IF i \in first THEN OnElement(elements[i]).calls ELSE <<>>]),
         runs  |-> Flatten([i \in DOMAIN elements |->
                      IF i \in first THEN OnElement(elements[i]).runs ELSE <<>>])]

\* variant: a run that is rejected at once ends the scan or batch
HandleAll_StopsAtFailure(elements) ==
    LET failed == { i \in DOMAIN elements :
                      /\ OnElement(elements[i]).runs # <<>>
                      /\ OnElement(elements[i]).runs[1].phase = "rejected" }
        kept   == { i \in DOMAIN elements : \A j \in 1..(i - 1) : j \notin failed }
    IN  [calls |-> Flatten([i \in DOMAIN elements |->
                      IF i \in kept THEN OnElement(elements[i]).calls ELSE <<>>]),
         runs  |-> Flatten([i \in DOMAIN elements |->
                      IF i \in kept THEN OnElement(elements[i]).runs ELSE <<>>])]

\* variant: the elements are handled last to first
HandleAll_LastFirst(elements) ==
    [calls |-> Flatten([i \in DOMAIN elements |->
                  OnElement(elements[Len(elements) + 1 - i]).calls]),
     runs  |-> Flatten([i \in DOMAIN elements |->
                  OnElement(elements[Len(elements) + 1 - i]).runs])]

\* the effects of handling a sequence of elements one after the other
HandleAll(elements) ==
    [calls |-> Flatten([i \in DOMAIN elements |-> OnElement(elements[i]).calls]),
     runs  |-> Flatten([i \in DOMAIN elements |-> OnElement(elements[i]).runs])]

RECURSIVE AddRuns(_, _)
AddRuns(bag, runs) ==
    IF runs = <<>> THEN bag ELSE AddRuns(bag (+) SetToBag({Head(runs)}), Tail(runs))

(* ------------------------------------------------------------------ *)
(* The platform's MutationObserver, which the class extends            *)
(* ------------------------------------------------------------------ *)
\* variant: childList: true whatever options.subtree is
ObserverInit_ChildListAlways(subtree) ==
    [attributes |-> TRUE, childList |-> TRUE, subtree |-> subtree]

\* the options observe() passes to super.observe()
ObserverInit(subtree) ==
    [attributes |-> TRUE, childList |-> subtree, subtree |-> subtree]

\* the registrations under which a mutation of node n is reported
Interested(n) ==
    { t \in DOMAIN registered : t = n \/ (t \in Ancestors(n) /\ registered[t].subtree) }

AttributeRecord(n)     == [type |-> "attributes", target |-> n, addedNodes |-> <<>>]
ChildListRecord(p, ns) == [type |-> "childList", target |-> p, addedNodes |-> ns]

\* queue record rec if some registration in scope asks for its type
Enqueue(rec) ==
    IF \E t \in Interested(rec.target) :
           IF rec.type = "attributes" THEN registered[t].attributes
           ELSE registered[t].childList
    THEN Append(records, rec)
    ELSE records

\* variant: observing another target drops the registrations made before
SuperObserve_Replaces(target, init) == [t \in {target} |-> init]

\* MutationObserver.observe(): a target is registered once, a repeated call
\* for the same target replaces its options
SuperObserve(target, init) ==
    [t \in DOMAIN registered \cup {target} |->
        IF t = target THEN init ELSE registered[t]]

NoRegistrations == [t \in {} |-> ObserverInit(FALSE)]

(* ------------------------------------------------------------------ *)
(* Initial state: a constructed instance, nothing observed yet         *)
(* ------------------------------------------------------------------ *)
H_x_a == S_origin \o S_x_a \o S_dotjs     \* "http://h/x-a.js"
H_y_b == S_origin \o S_y_b \o S_dotjs     \* "http://h/y-b.js"

H_z_c_default == S_origin \o S_js \o S_z_c \o S_elemjs   \* "http://h/js/z-c-element.js"

DefaultLoader == [outcome |-> [h \in {} |-> "class"]]

\* the constructor options the behaviours start from
Configurations ==
    { \* new CustomElementsLazyLoader({ urlResolver: name => `${name}.js` })
      [filter      |-> NoFilter,
       urlResolver |-> [kind |-> "function", throwsFor |-> {}],
       loader      |-> DefaultLoader],
      \* a list filter, a Map resolver with an unparseable entry and a missing
      \* name, and a loader yielding null for one module
      [filter      |-> ListFilter({S_x_a, S_y_b, S_z_c}),
       urlResolver |-> [kind |-> "map",
                        table |-> (S_x_a :> UrlValue(H_x_a)) @@ (S_y_b :> StringValue(S_scheme))],
       loader      |-> [outcome |-> (H_x_a :> "null")]],
      \* a filter function that accepts one name, the default resolver and a
      \* loader that throws
      [filter      |-> FunctionFilter({S_z_c}),
       urlResolver |-> [kind |-> "default"],
       loader      |-> [outcome |-> (H_z_c_default :> "throw")]],
      \* a resolver that throws for one name, a loader that rejects, yields
      \* undefined or throws
      [filter      |-> FunctionFilter({S_x_a, S_y_b, S_z_c}),
       urlResolver |-> [kind |-> "function", throwsFor |-> {S_z_c}],
       loader      |-> [outcome |-> (H_x_a :> "reject") @@ (H_y_b :> "undefined")]] }

Init ==
    /\ childNodes   = InitChildNodes
    /\ isAttr       = InitIsAttr
    /\ registry     = [n \in {} |-> Undefined]
    /\ \E c \in Configurations :
          /\ filter      = c.filter
          /\ urlResolver = c.urlResolver
          /\ loader      = c.loader
    /\ registered   = NoRegistrations
    /\ records      = <<>>
    /\ inflight     = EmptyBag
    /\ calls        = <<>>
    /\ lastOp       = [op |-> "new"]
    /\ defineIssued = {}
    /\ nOps         = 0
    /\ observed     = FALSE
    /\ targets      = <<>>

(* ------------------------------------------------------------------ *)
(* Operations of the instance                                          *)
(* ------------------------------------------------------------------ *)
ObserveTargets == {1, 3}

\* variant: the scan option is ignored
ScanIfRequested_Always(target, scan, subtree) == HandleAll(ScanOrder(<<target>>, subtree))

\* if (options.scan) { this.#scan(target, options.subtree); }
ScanIfRequested(target, scan, subtree) ==
    IF scan THEN HandleAll(ScanOrder(<<target>>, subtree))
    ELSE [calls |-> <<>>, runs |-> <<>>]

\* observe( target, options )
Observe(target, scan, subtree) ==
    /\ nOps < MaxOps
    /\ nOps' = nOps + 1
    /\ observed' = TRUE
    /\ targets' = Append(SelectSeq(targets, LAMBDA t : t # target), target)
    /\ registered' = SuperObserve(target, ObserverInit(subtree))
    /\ LET done == ScanIfRequested(target, scan, subtree)
       IN  /\ BagCardinality(inflight) + Len(done.runs) <= MaxInflight
           /\ calls'    = done.calls
           /\ inflight' = AddRuns(inflight, done.runs)
    /\ lastOp' = [op |-> "observe", target |-> target, scan |-> scan, subtree |-> subtree]
    /\ UNCHANGED << childNodes, isAttr, registry, filter, urlResolver, loader,
                    records, defineIssued >>

\* variant: the queued records survive disconnect()
Disconnect_KeepsRecords ==
    /\ registered' = [t \in {} |-> ObserverInit(FALSE)]
    /\ calls'      = <<>>
    /\ lastOp'     = [op |-> "disconnect"]
    /\ targets'    = <<>>
    /\ UNCHANGED << childNodes, isAttr, registry, filter, urlResolver, loader, records,
                    inflight, defineIssued, nOps, observed >>

\* variant: disconnect() also abandons the loads that are pending
Disconnect_CancelsLoads ==
    /\ registered' = [t \in {} |-> ObserverInit(FALSE)]
    /\ records'    = <<>>
    /\ inflight'   = EmptyBag
    /\ calls'      = <<>>
    /\ lastOp'     = [op |-> "disconnect"]
    /\ targets'    = <<>>
    /\ UNCHANGED << childNodes, isAttr, registry, filter, urlResolver, loader,
                    defineIssued, nOps, observed >>

\* disconnect(), inherited: drops the registrations and the queued records
Disconnect ==
    /\ registered' = NoRegistrations
    /\ records'    = <<>>
    /\ calls'      = <<>>
    /\ lastOp'     = [op |-> "disconnect"]
    /\ targets'    = <<>>
    /\ UNCHANGED << childNodes, isAttr, registry, filter, urlResolver, loader,
                    inflight, defineIssued, nOps, observed >>

\* mutationCallback( records ): the platform hands over the queued records
Deliver ==
    /\ records # <<>>
    /\ LET done == HandleAll(BatchEvents(records))
       IN  /\ BagCardinality(inflight) + Len(done.runs) <= MaxInflight
           /\ calls'    = done.calls
           /\ inflight' = AddRuns(inflight, done.runs)
    /\ records' = <<>>
    /\ lastOp'  = [op |-> "deliver"]
    /\ UNCHANGED << childNodes, isAttr, registry, filter, urlResolver, loader,
                    registered, defineIssued, nOps, observed, targets >>

(* ------------------------------------------------------------------ *)
(* The page mutating the document                                      *)
(* ------------------------------------------------------------------ *)
AttrTargets == {3}
AttrValues  == {StringValue(S_Z_C), StringValue(S_x_a)}

\* element.setAttribute('is', value)
SetIs(n, v) ==
    /\ nOps < MaxOps
    /\ nOps' = nOps + 1
    /\ IsElement(n)
    /\ isAttr'  = [isAttr EXCEPT ![n] = v]
    /\ records' = Enqueue(AttributeRecord(n))
    /\ calls'   = <<>>
    /\ lastOp'  = [op |-> "setIs", node |-> n]
    /\ UNCHANGED << childNodes, registry, filter, urlResolver, loader, registered,
                    inflight, defineIssued, observed, targets >>

AppendParents == {3}
AppendLists   == { <<6>>, <<8>>, <<8, 6>> }

\* parent.append( ...nodes ) with nodes that are not attached anywhere
AppendNodes(p, ns) ==
    /\ nOps < MaxOps
    /\ nOps' = nOps + 1
    /\ IsElement(p)
    /\ \A i \in DOMAIN ns : ~HasParent(ns[i]) /\ ns[i] \notin Ancestors(p) \cup {p}
    /\ childNodes' = [childNodes EXCEPT ![p] = @ \o ns]
    /\ records'    = Enqueue(ChildListRecord(p, ns))
    /\ calls'      = <<>>
    /\ lastOp'     = [op |-> "append", node |-> p, nodes |-> ns]
    /\ UNCHANGED << isAttr, registry, filter, urlResolver, loader, registered,
                    inflight, defineIssued, observed, targets >>

(* ------------------------------------------------------------------ *)
(* Completion of the pipeline runs                                     *)
(* ------------------------------------------------------------------ *)
RunsIn(phase) == { r \in DOMAIN inflight : r.phase = phase }

\* the value the promise of #load resolves to once the loader's promise settles
LoadedValue(r) ==
    LET outcome == LoaderOutcome(r.url)
    IN  CASE outcome = "class"     -> Ctor(r.url.href)
          [] outcome = "null"      -> Null
          [] outcome = "undefined" -> Undefined
          [] OTHER                 -> Thrown

\* variant: extends is passed for every definition
DefineOptions_AlwaysExtends(names) == StringValue(names.tagName)

\* the options #define builds for customElements.define
DefineOptions(names) ==
    IF names.isAttr.type = "string" THEN StringValue(names.tagName) ELSE Undefined

\* variant: every loaded value is treated as null
SkipsDefinition_Always(ctor) == TRUE

\* variant: the test for null is missing
SkipsDefinition_Never(ctor) == FALSE

\* if (ctor === null): the definition is skipped
SkipsDefinition(ctor) == ctor = Null

\* variant: a name that is defined already is defined again
DefineSucceeds_Redefines(name, ctor) == ctor.type = "class"

\* customElements.define(name, ctor, options) succeeds for a class and a name
\* that is not defined yet, and throws otherwise
DefineSucceeds(name, ctor) == ctor.type = "class" /\ name \notin DOMAIN registry

Definition(ctor, ext) == [type |-> "definition", ctor |-> ctor, extends |-> ext]

\* the loader's promise settles and the callbacks chained in #define run:
\* .then() defines or skips, .catch() rethrows what #load or define threw
DefineThen(r) ==
    /\ r \in RunsIn("loading")
    /\ inflight' = inflight (-) SetToBag({r})
    /\ LET name == r.names.elementName
           ctor == LoadedValue(r)
           ext  == DefineOptions(r.names)
       IN  CASE ctor = Thrown ->
                  /\ calls' = <<ErrorCall(name, "Error loading")>>
                  /\ UNCHANGED << registry, defineIssued >>
             [] ctor # Thrown /\ SkipsDefinition(ctor) ->
                  /\ calls' = <<WarnCall(name)>>
                  /\ UNCHANGED << registry, defineIssued >>
             [] OTHER ->
                  /\ defineIssued' = defineIssued \cup {name}
                  /\ IF DefineSucceeds(name, ctor)
                     THEN /\ registry' = registry @@ (name :> Definition(ctor, ext))
                          /\ calls'    = <<DefineCall(name, ctor, ext)>>
                     ELSE /\ registry' = registry
                          /\ calls'    = <<DefineCall(name, ctor, ext),
                                           ErrorCall(name, "define threw")>>
    /\ lastOp' = [op |-> "then"]
    /\ UNCHANGED << childNodes, isAttr, filter, urlResolver, loader, registered,
                    records, nOps, observed, targets >>

\* variant: the .catch() callback does not rethrow
DefineCatch_Swallows(r) ==
    /\ r \in RunsIn("rejected")
    /\ inflight' = inflight (-) SetToBag({r})
    /\ calls'    = <<>>
    /\ lastOp'   = [op |-> "catch"]
    /\ UNCHANGED << childNodes, isAttr, registry, filter, urlResolver, loader,
                    registered, records, defineIssued, nOps, observed, targets >>

\* variant: the .catch() callback asks the urlResolver again after a failure
DefineCatch_Retries(r) ==
    /\ r \in RunsIn("rejected")
    /\ inflight' = inflight (-) SetToBag({r})
    /\ calls'    = <<ErrorCall(r.names.elementName, r.cause),
                     UrlResolverCall(r.names.elementName)>>
    /\ lastOp'   = [op |-> "catch"]
    /\ UNCHANGED << childNodes, isAttr, registry, filter, urlResolver, loader,
                    registered, records, defineIssued, nOps, observed, targets >>

\* the .catch() callback of #define for a #load that was rejected before it
\* could wait for the loader: it throws the wrapping error, which nothing handles
DefineCatch(r) ==
    /\ r \in RunsIn("rejected")
    /\ inflight' = inflight (-) SetToBag({r})
    /\ calls'    = <<ErrorCall(r.names.elementName, r.cause)>>
    /\ lastOp'   = [op |-> "catch"]
    /\ UNCHANGED << childNodes, isAttr, registry, filter, urlResolver, loader,
                    registered, records, defineIssued, nOps, observed, targets >>

Next ==
    \/ \E t \in ObserveTargets, scan \in BOOLEAN, subtree \in BOOLEAN : Observe(t, scan, subtree)
    \/ Disconnect
    \/ Deliver
    \/ \E n \in AttrTargets, v \in AttrValues : SetIs(n, v)
    \/ \E p \in AppendParents, ns \in AppendLists : AppendNodes(p, ns)
    \/ \E r \in DOMAIN inflight : DefineThen(r)
    \/ \E r \in DOMAIN inflight : DefineCatch(r)

Spec == Init /\ [][Next]_vars

\* Scans and the completion of the loads they start; a loader that settles
\* has its callbacks run by the microtask queue.
NextScan ==
    \/ \E t \in ObserveTargets, scan \in BOOLEAN, subtree \in BOOLEAN : Observe(t, scan, subtree)
    \/ Disconnect
    \/ \E r \in DOMAIN inflight : DefineThen(r)
    \/ \E r \in DOMAIN inflight : DefineCatch(r)

ScanSpec ==
    /\ Init
    /\ [][NextScan]_vars
    /\ WF_vars(\E r \in DOMAIN inflight : DefineThen(r))

(* ------------------------------------------------------------------ *)
(* Construction: new CustomElementsLazyLoader( options )               *)
(* ------------------------------------------------------------------ *)
BooleanValue(b)  == [type |-> "boolean", value |-> b]
NumberValue(n)   == [type |-> "number", value |-> n]
FunctionValue(f) == [type |-> "function", fn |-> f]
ArrayValue(a)    == [type |-> "array", items |-> a]
MapValue(t)      == [type |-> "map", table |-> t]
PlainObject      == [type |-> "object"]

S_invalid == <<105,110,118,97,108,105,100>>     \* "invalid"

\* !value
Falsy(v) ==
    CASE v.type \in {"undefined", "null"} -> TRUE
      [] v.type = "boolean" -> ~v.value
      [] v.type = "number"  -> v.value = 0
      [] v.type = "string"  -> v.value = <<>>
      [] OTHER -> FALSE

\* the defaults the constructor passes to #resolveConstructorOptions
Defaults ==
    [filter |-> NoFilter, urlResolver |-> [kind |-> "default"], loader |-> DefaultLoader]

ResolvedOptions(f, u, l) ==
    [type |-> "options", filter |-> f, urlResolver |-> u, loader |-> l]

\* variant: the loader option is taken as it is when it is given
ResolveConstructorOptions_LoaderUnchecked(options, defaults) ==
    IF Falsy(options)
    THEN ResolvedOptions(defaults.filter, defaults.urlResolver, defaults.loader)
    ELSE LET f == options.filter
             u == options.urlResolver
             l == options.loader
         IN  IF \/ ~Falsy(f) /\ f.type \notin {"function", "array"}
                \/ ~Falsy(u) /\ u.type \notin {"function", "map"}
             THEN Thrown
             ELSE ResolvedOptions(
                    IF Falsy(f) THEN defaults.filter
                    ELSE IF f.type = "function" THEN f.fn ELSE ListFilter(Range(f.items)),
                    IF Falsy(u) THEN defaults.urlResolver
                    ELSE IF u.type = "function" THEN u.fn
                    ELSE [kind |-> "map", table |-> u.table],
                    IF Falsy(l) THEN defaults.loader
                    ELSE IF l.type = "function" THEN l.fn ELSE defaults.loader)

\* #resolveConstructorOptions( options, defaults ): the sanitized options, or
\* Thrown for the TypeError
ResolveConstructorOptions(options, defaults) ==
    IF Falsy(options)
    THEN ResolvedOptions(defaults.filter, defaults.urlResolver, defaults.loader)
    ELSE LET f == options.filter
             u == options.urlResolver
             l == options.loader
         IN  IF \/ ~Falsy(f) /\ f.type \notin {"function", "array"}
                \/ ~Falsy(u) /\ u.type \notin {"function", "map"}
                \/ ~Falsy(l) /\ l.type # "function"
             THEN Thrown
             ELSE ResolvedOptions(
                    IF Falsy(f) THEN defaults.filter
                    ELSE IF f.type = "function" THEN f.fn ELSE ListFilter(Range(f.items)),
                    IF Falsy(u) THEN defaults.urlResolver
                    ELSE IF u.type = "function" THEN u.fn
                    ELSE [kind |-> "map", table |-> u.table],
                    IF Falsy(l) THEN defaults.loader ELSE l.fn)

\* values of no valid shape for any option, the falsy ones first
FalsyValues  == {Undefined, Null, BooleanValue(FALSE), NumberValue(0), StringValue(<<>>)}
OtherValues  == {BooleanValue(TRUE), NumberValue(1), StringValue(S_invalid), PlainObject}

FilterFunctions      == {FunctionValue(FunctionFilter({S_x_a}))}
UrlResolverFunctions == {FunctionValue([kind |-> "function", throwsFor |-> {}])}
LoaderFunctions      == {FunctionValue([outcome |-> (H_x_a :> "null")])}
Arrays               == {ArrayValue(<<S_x_a, S_y_b>>)}
Maps                 == {MapValue(S_x_a :> UrlValue(H_x_a))}

\* what each option is given as: a function is a predicate, a resolver or a
\* loader according to the option it is passed for
FilterValues      == FalsyValues \cup OtherValues \cup FilterFunctions \cup Arrays \cup Maps
UrlResolverValues == FalsyValues \cup OtherValues \cup UrlResolverFunctions \cup Arrays \cup Maps
LoaderValues      == FalsyValues \cup OtherValues \cup LoaderFunctions \cup Arrays \cup Maps

\* the arguments the constructor is called with
ConstructorArguments ==
    {Undefined, Null}
    \cup { [type |-> "object", filter |-> f, urlResolver |-> u, loader |-> l] :
              f \in FilterValues, u \in UrlResolverValues, l \in LoaderValues }

\* the private fields before the constructor has assigned them
InitUnconstructed ==
    /\ childNodes   = InitChildNodes
    /\ isAttr       = InitIsAttr
    /\ registry     = [n \in {} |-> Undefined]
    /\ filter       = Null
    /\ urlResolver  = Null
    /\ loader       = Null
    /\ registered   = NoRegistrations
    /\ records      = <<>>
    /\ inflight     = EmptyBag
    /\ calls        = <<>>
    /\ lastOp       = [op |-> "start"]
    /\ defineIssued = {}
    /\ nOps         = 0
    /\ observed     = FALSE
    /\ targets      = <<>>

\* constructor( options )
Construct(options) ==
    /\ lastOp.op = "start"
    /\ LET resolved == ResolveConstructorOptions(options, Defaults)
       IN  IF resolved = Thrown
           THEN /\ lastOp' = [op |-> "new", options |-> options, threw |-> TRUE]
                /\ UNCHANGED << filter, urlResolver, loader >>
           ELSE /\ lastOp' = [op |-> "new", options |-> options, threw |-> FALSE]
                /\ filter'      = resolved.filter
                /\ urlResolver' = resolved.urlResolver
                /\ loader'      = resolved.loader
    /\ UNCHANGED << childNodes, isAttr, registry, registered, records, inflight, calls,
                    defineIssued, nOps, observed, targets >>

NextConstructor == \E options \in ConstructorArguments : Construct(options)

ConstructorSpec == InitUnconstructed /\ [][NextConstructor]_vars

(* ------------------------------------------------------------------ *)
(* Names of any form: the validator applied, and an element so named   *)
(* ------------------------------------------------------------------ *)
S_x_y       == <<120,45,121>>                          \* "x-y"
S_1_invalid == <<49,45,105,110,118,97,108,105,100>>    \* "1-invalid"
S_noHyphen  == <<110,111,72,121,112,104,101,110>>      \* "noHyphen"

\* 'a', 'z', the characters next to them, '-', a digit and an upper-case letter
NameChars == {A_CHAR, Z_CHAR, A_CHAR - 1, Z_CHAR + 1, HYPHEN, 49, UPPER_A}

GeneratedNames == UNION { [1..n -> NameChars] : n \in 0..MaxNameLen }

NameValues ==
    { StringValue(n) : n \in GeneratedNames \cup INVALID_CUSTOM_ELEMENT_NAMES
                              \cup {S_x_y, S_1_invalid, S_noHyphen, S_x_a} }
    \cup {Undefined, Null, NumberValue(1), BooleanValue(TRUE), PlainObject}

NamedElement == 3

\* a constructed instance and a document in which one element carries the
\* value as its 'is' attribute, if it is a string
InitNamed ==
    /\ childNodes   = InitChildNodes
    /\ \E v \in NameValues :
          /\ isAttr = [InitIsAttr EXCEPT ![NamedElement] = IF v.type = "string" THEN v ELSE Null]
          /\ lastOp = [op |-> "new", value |-> v]
    /\ registry     = [n \in {} |-> Undefined]
    /\ \E c \in Configurations :
          /\ filter      = c.filter
          /\ urlResolver = c.urlResolver
          /\ loader      = c.loader
    /\ registered   = NoRegistrations
    /\ records      = <<>>
    /\ inflight     = EmptyBag
    /\ calls        = <<>>
    /\ defineIssued = {}
    /\ nOps         = 0
    /\ observed     = FALSE
    /\ targets      = <<>>

\* this.#isCustomElementName( value )
ValidateName ==
    /\ lastOp.op = "new"
    /\ lastOp' = [op |-> "isCustomElementName", value |-> lastOp.value,
                  result |-> IsCustomElementNameOfValue(lastOp.value)]
    /\ calls' = <<>>
    /\ UNCHANGED << childNodes, isAttr, registry, filter, urlResolver, loader, registered,
                    records, inflight, defineIssued, nOps, observed, targets >>

\* this.#resolveNames( element )
ResolveNamesOf(element) ==
    /\ IsElement(element)
    /\ lastOp.op = "new"
    /\ lastOp' = [op |-> "resolveNames", element |-> element, names |-> ResolveNames(element)]
    /\ calls' = <<>>
    /\ UNCHANGED << childNodes, isAttr, registry, filter, urlResolver, loader, registered,
                    records, inflight, defineIssued, nOps, observed, targets >>

NextNamed ==
    \/ ValidateName
    \/ \E element \in Nodes : ResolveNamesOf(element)
    \/ \E subtree \in BOOLEAN : Observe(NamedElement, TRUE, subtree)

NamedSpec == InitNamed /\ [][NextNamed]_vars

\* One instance observing two elements neither of which contains the other
SiblingTargets == {3, 5}

NextSubscriptions ==
    \/ \E t \in SiblingTargets, scan \in BOOLEAN, subtree \in BOOLEAN : Observe(t, scan, subtree)
    \/ Disconnect
    \/ Deliver
    \/ \E n \in AttrTargets, v \in AttrValues : SetIs(n, v)
    \/ \E p \in AppendParents, ns \in AppendLists : AppendNodes(p, ns)
    \/ \E r \in DOMAIN inflight : DefineThen(r)
    \/ \E r \in DOMAIN inflight : DefineCatch(r)

SubscriptionSpec == Init /\ [][NextSubscriptions]_vars

\* One element observed while its 'is' attribute is set to one value after
\* another, each different from the one before
NextRename ==
    \/ \E scan \in BOOLEAN : Observe(NamedElement, scan, FALSE)
    \/ \E v \in AttrValues :
          /\ ToLowerCase(v.value) # ResolveNames(NamedElement).elementName
          /\ SetIs(NamedElement, v)
    \/ Deliver
    \/ \E r \in DOMAIN inflight : DefineThen(r)
    \/ \E r \in DOMAIN inflight : DefineCatch(r)

RenameSpec == Init /\ [][NextRename]_vars

\* Constructor options under which the run of one name fails while that of
\* another can register its class
H_z_c == S_origin \o S_z_c \o S_dotjs     \* "http://h/z-c.js"

MixedConfigurations ==
    { \* the urlResolver throws for x-a, the loader yields undefined for z-c
      [filter      |-> NoFilter,
       urlResolver |-> [kind |-> "function", throwsFor |-> {S_x_a}],
       loader      |-> [outcome |-> (H_z_c :> "undefined")]],
      \* a Map without x-a and with an unparseable entry for y-b
      [filter      |-> ListFilter({S_x_a, S_y_b, S_z_c}),
       urlResolver |-> [kind |-> "map",
                        table |-> (S_y_b :> StringValue(S_scheme)) @@ (S_z_c :> UrlValue(H_z_c))],
       loader      |-> DefaultLoader],
      \* the loader rejects for x-a and throws for z-c
      [filter      |-> NoFilter,
       urlResolver |-> [kind |-> "function", throwsFor |-> {}],
       loader      |-> [outcome |-> (H_x_a :> "reject") @@ (H_z_c :> "throw")]] }

InitMixed ==
    /\ childNodes   = InitChildNodes
    /\ isAttr       = InitIsAttr
    /\ registry     = [n \in {} |-> Undefined]
    /\ \E c \in MixedConfigurations :
          /\ filter      = c.filter
          /\ urlResolver = c.urlResolver
          /\ loader      = c.loader
    /\ registered   = NoRegistrations
    /\ records      = <<>>
    /\ inflight     = EmptyBag
    /\ calls        = <<>>
    /\ lastOp       = [op |-> "new"]
    /\ defineIssued = {}
    /\ nOps         = 0
    /\ observed     = FALSE
    /\ targets      = <<>>

IndependenceSpec == InitMixed /\ [][Next]_vars

(* ------------------------------------------------------------------ *)
(* Properties                                                          *)
(* ------------------------------------------------------------------ *)
IsVisit(c)        == c.op = "visit"
IsFilter(c)       == c.op = "filter"
IsUrlResolver(c)  == c.op = "urlResolver"
IsDefine(c)       == c.op = "define"
IsHandlerCall(c)  == c.op \in {"visit", "filter", "urlResolver", "loader"}

NamesOf(cs)    == [i \in DOMAIN cs |-> cs[i].name]
ElementsOf(cs) == [i \in DOMAIN cs |-> cs[i].element]

\* document order of the subtree rooted at n
RECURSIVE PreOrder(_)
PreOrder(n) == <<n>> \o Flatten([i \in DOMAIN Children(n) |-> PreOrder(Children(n)[i])])

\* the name resolved for n is one #shouldHandle passes on to the filter
NameReachesFilter(n) ==
    LET name == ResolveNames(n).elementName
    IN  Truthy(name) /\ IsCustomElementName(name) /\ name \notin DOMAIN registry

\* what the filter is expected to be asked for a sequence of elements
ExpectedFilterNames(elements) ==
    NamesOf([i \in DOMAIN SelectSeq(elements, NameReachesFilter) |->
               [name |-> ResolveNames(SelectSeq(elements, NameReachesFilter)[i]).elementName]])

FilterConfigured == filter.kind # "null"

\* C1: no urlResolver or loader call is made for an event whose resolved name
\* is in the registry when the event is processed.
C1_NoAttemptForRegisteredName ==
    [][\A i \in DOMAIN calls' :
          calls'[i].op \in {"urlResolver", "loader"} => calls'[i].name \notin DOMAIN registry]_vars

\* an event for a registered name has just been processed
C1_Witness ==
    /\ lastOp.op \in {"observe", "deliver"}
    /\ \E i \in DOMAIN calls : IsVisit(calls[i]) /\ calls[i].name \in DOMAIN registry

\* C2: customElements.define is called at most once per element name.
C2_AtMostOneDefinePerName ==
    [][\A i \in DOMAIN calls' :
          IsDefine(calls'[i]) => calls'[i].name \notin defineIssued]_vars

\* names and module addresses the loads of the model can involve
CustomNames == {S_x_a, S_y_b, S_z_c}
ModuleHrefs == {S_origin \o n \o S_dotjs : n \in CustomNames}
               \cup {S_origin \o S_js \o n \o S_elemjs : n \in CustomNames}

LoadingClass(n, h) ==
    \E r \in RunsIn("loading") :
        r.names.elementName = n /\ r.url.href = h /\ LoaderOutcome(r.url) = "class"

\* C3: a pending load whose loader yields a class leads to the name being
\* registered with that class.
C3_LoadedClassEventuallyRegistered ==
    \A n \in CustomNames : \A h \in ModuleHrefs :
        LoadingClass(n, h) ~> (n \in DOMAIN registry /\ registry[n].ctor = Ctor(h))

\* a load started by a scan has completed and its class is registered
C3_Witness ==
    /\ lastOp.op = "then"
    /\ \E i \in DOMAIN calls :
          /\ IsDefine(calls[i])
          /\ calls[i].name \in DOMAIN registry
          /\ registry[calls[i].name].ctor = calls[i].ctor
          /\ calls[i].ctor.type = "class"

\* the define call of a step, if the step completed run r
CompletedBy(r) == inflight' = inflight (-) SetToBag({r})

\* C4: a define call names the run's elementName and carries extends = the
\* lower-case tag of the element exactly if the element had an 'is' attribute
\* when its event was processed; a successful define registers just that.
C4_DefineCarriesExtendsIffIs ==
    [][\A r \in DOMAIN inflight : \A i \in DOMAIN calls' :
          (CompletedBy(r) /\ IsDefine(calls'[i])) =>
             LET ext == IF r.hadIs THEN StringValue(ToLowerCase(tagNameOf[r.element]))
                        ELSE Undefined
             IN  /\ calls'[i].name = r.names.elementName
                 /\ calls'[i].extends = ext
                 /\ (Len(calls') = 1 =>
                        /\ calls'[i].name \in DOMAIN registry'
                        /\ registry'[calls'[i].name] = Definition(calls'[i].ctor, ext))]_vars

\* one name is registered as a customized built-in, another as autonomous
C4_Witness ==
    /\ \E n \in DOMAIN registry : registry[n].extends = StringValue(S_div)
    /\ \E n \in DOMAIN registry : registry[n].extends = Undefined

\* C5: observe() with scan:false calls nothing and starts no run; handler
\* calls are made only by a scanning observe() or by a delivery of records.
C5_NoScanNoCalls ==
    [][/\ (lastOp'.op = "observe" /\ ~lastOp'.scan) => (calls' = <<>> /\ inflight' = inflight)
       /\ (\E i \in DOMAIN calls' : IsHandlerCall(calls'[i])) =>
             \/ lastOp'.op = "observe" /\ lastOp'.scan
             \/ lastOp'.op = "deliver" /\ records # <<>>]_vars

\* observe() without scan on a tree that holds a name the filter would be asked for
C5_Witness ==
    /\ lastOp.op = "observe" /\ ~lastOp.scan
    /\ FilterConfigured
    /\ \E i \in DOMAIN PreOrder(lastOp.target) : NameReachesFilter(PreOrder(lastOp.target)[i])
    /\ calls = <<>>

ScannedWith(subtree) ==
    lastOp.op = "observe" /\ lastOp.scan /\ lastOp.subtree = subtree /\ FilterConfigured

\* C6 as stated: a scan with subtree:false calls the filter exactly once, with
\* the target's name.
C6_Original ==
    ScannedWith(FALSE) =>
        NamesOf(SelectSeq(calls, IsFilter)) = <<ResolveNames(lastOp.target).elementName>>

\* C6: a scan with subtree:false visits the target only, and calls the filter
\* once with the target's name if that name is non-empty, an eligible custom
\* name and not registered, and not at all otherwise.
C6_ScanTargetOnly ==
    ScannedWith(FALSE) =>
        /\ ElementsOf(SelectSeq(calls, IsVisit)) = <<lastOp.target>>
        /\ NamesOf(SelectSeq(calls, IsFilter)) = ExpectedFilterNames(<<lastOp.target>>)

\* the filter was asked once, for a target that has a descendant it would
\* have been asked for as well
C6_Witness ==
    /\ ScannedWith(FALSE)
    /\ Len(SelectSeq(calls, IsFilter)) = 1
    /\ \E i \in DOMAIN PreOrder(lastOp.target) :
          i > 1 /\ NameReachesFilter(PreOrder(lastOp.target)[i])

\* C7 as stated: a scan with subtree:true calls the filter once per element of
\* the target's tree, in document order.
C7_Original ==
    ScannedWith(TRUE) =>
        NamesOf(SelectSeq(calls, IsFilter)) =
            [i \in DOMAIN PreOrder(lastOp.target) |->
                ResolveNames(PreOrder(lastOp.target)[i]).elementName]

\* C7: a scan with subtree:true visits every element of the target's tree
\* exactly once in document order, and calls the filter, in that order, once
\* for each element whose name is non-empty, an eligible custom name and not
\* registered.
C7_ScanPreOrder ==
    ScannedWith(TRUE) =>
        /\ ElementsOf(SelectSeq(calls, IsVisit)) = PreOrder(lastOp.target)
        /\ NamesOf(SelectSeq(calls, IsFilter)) = ExpectedFilterNames(PreOrder(lastOp.target))

\* a scan of a tree four levels deep with a sibling after the deep branch
C7_Witness ==
    /\ ScannedWith(TRUE)
    /\ lastOp.target = 1
    /\ Len(PreOrder(1)) >= 5
    /\ Len(SelectSeq(calls, IsFilter)) >= 2

\* the number of events the records of a batch stand for: one per attribute
\* change, one per added element
RECURSIVE Occurrences(_)
Occurrences(batch) ==
    IF batch = <<>> THEN 0
    ELSE (IF Head(batch).type = "attributes" THEN 1
          ELSE Cardinality({k \in DOMAIN Head(batch).addedNodes :
                               IsElement(Head(batch).addedNodes[k])}))
         + Occurrences(Tail(batch))

Delivered == lastOp'.op = "deliver" /\ records # <<>> /\ records' = <<>>

\* C8 as stated: every recorded append of an element and every recorded
\* attribute change starts exactly one pipeline attempt.
C8_Original ==
    [][Delivered => Len(SelectSeq(calls', IsUrlResolver)) = Occurrences(records)]_vars

\* C8: every recorded append of an element and every recorded attribute
\* change is handled as one event of its own, and the events that start a
\* pipeline attempt are exactly those whose name passes the gate on delivery.
C8_OneEventPerOccurrence ==
    [][Delivered =>
          /\ Len(SelectSeq(calls', IsVisit)) = Occurrences(records)
          /\ Len(SelectSeq(calls', IsUrlResolver)) =
                Cardinality({i \in DOMAIN calls' :
                    /\ IsVisit(calls'[i])
                    /\ Truthy(calls'[i].name)
                    /\ IsCustomElementName(calls'[i].name)
                    /\ calls'[i].name \notin DOMAIN registry
                    /\ (FilterConfigured => calls'[i].name \in filter.allowed)})]_vars

\* two changes of the attribute of one element, delivered together, each
\* started an attempt
C8_Witness ==
    /\ lastOp.op = "deliver"
    /\ Len(SelectSeq(calls, IsVisit)) = 2
    /\ calls[1].element = 3 /\ \A i \in DOMAIN calls : IsVisit(calls[i]) => calls[i].element = 3
    /\ Len(SelectSeq(calls, IsUrlResolver)) = 2

OnlyTargetObserved(t) == DOMAIN registered = {t} /\ ~registered[t].subtree

\* C9: while the only registration is one with subtree:false, an attribute
\* change on the target is recorded, and neither an attribute change on
\* another element nor any append is.
C9_TargetOnly ==
    [][\A t \in Nodes : OnlyTargetObserved(t) =>
          /\ (lastOp'.op = "setIs" /\ lastOp'.node = t) =>
                records' = Append(records, AttributeRecord(t))
          /\ (lastOp'.op = "setIs" /\ lastOp'.node # t) => records' = records
          /\ lastOp'.op = "append" => records' = records]_vars

\* an append beneath a target observed with subtree:false left no record
C9_Witness ==
    /\ \E t \in Nodes : OnlyTargetObserved(t) /\ lastOp.op = "append" /\ lastOp.node = t
    /\ records = <<>>

Unobserved == DOMAIN registered = {}

\* C10: without a registration no record is queued, so no step calls the
\* filter or starts a run until the next observe(); disconnect() on an
\* instance that observes nothing changes nothing.
C10_DisconnectStopsDelivery ==
    [][/\ DOMAIN registered' = {} => records' = <<>>
       /\ (Unobserved /\ lastOp'.op # "observe") =>
             \A i \in DOMAIN calls' : ~IsHandlerCall(calls'[i])
       /\ (Unobserved /\ lastOp'.op = "disconnect") =>
             UNCHANGED << childNodes, isAttr, registry, registered, records, inflight >>]_vars

\* a mutation in the former scope after disconnect() left no record
C10_Witness ==
    /\ Unobserved /\ observed
    /\ lastOp.op \in {"setIs", "append"}
    /\ records = <<>>

DefineAttempted(n, h) ==
    /\ lastOp.op = "then"
    /\ \E i \in DOMAIN calls :
          IsDefine(calls[i]) /\ calls[i].name = n /\ calls[i].ctor = Ctor(h)

\* C11: disconnect() leaves the pending loads as they are, and a load that is
\* pending while nothing is observed any more, and whose loader yields a
\* class, leads to customElements.define being called with its name and
\* that class.
C11_DisconnectKeepsLoads ==
    /\ [][lastOp'.op = "disconnect" => inflight' = inflight]_vars
    /\ \A n \in CustomNames : \A h \in ModuleHrefs :
          (Unobserved /\ observed /\ LoadingClass(n, h)) ~> DefineAttempted(n, h)

\* define was called for a load completed after disconnect()
C11_Witness ==
    /\ Unobserved /\ observed
    /\ \E n \in CustomNames : \E h \in ModuleHrefs : DefineAttempted(n, h)

Last(seq) == seq[Len(seq)]

IsMutation(op) == op.op \in {"setIs", "append"}

ThenOf(r) == lastOp'.op = "then" /\ r.phase = "loading" /\ CompletedBy(r)

HasOp(cs, op) == \E i \in DOMAIN cs : cs[i].op = op

\* C13 as stated: a loader result of null or undefined ends the run without a
\* define call, without an error and with the registry unchanged.
C13_Original ==
    [][\A r \in DOMAIN inflight :
          (ThenOf(r) /\ LoaderOutcome(r.url) \in {"null", "undefined"}) =>
             /\ ~HasOp(calls', "define") /\ ~HasOp(calls', "error")
             /\ registry' = registry]_vars

\* C13: a loader result of null ends the run with a warning only: no define
\* call, no error, the registry unchanged. A result of undefined is not a
\* skip: define is called with it and throws, the error is surfaced with the
\* name, and the registry is unchanged.
C13_NullSkipsUndefinedFails ==
    [][\A r \in DOMAIN inflight :
          /\ (ThenOf(r) /\ LoaderOutcome(r.url) = "null") =>
                /\ calls' = <<WarnCall(r.names.elementName)>>
                /\ registry' = registry
          /\ (ThenOf(r) /\ LoaderOutcome(r.url) = "undefined") =>
                /\ Len(calls') = 2
                /\ calls'[1].op = "define" /\ calls'[1].name = r.names.elementName
                /\ calls'[1].ctor = Undefined
                /\ calls'[2].op = "error" /\ calls'[2].name = r.names.elementName
                /\ registry' = registry]_vars

\* a load that yielded null has just ended with the warning
C13_Witness ==
    /\ lastOp.op = "then"
    /\ Len(calls) = 1 /\ calls[1].op = "warn"
    /\ calls[1].name \notin DOMAIN registry

\* the urlResolver gives nothing a module can be loaded from: it throws, or
\* returns a string that does not parse, or something that is no URL
ResolutionFails(name) ==
    LET resolved == CallUrlResolver(name)
    IN  \/ resolved.type \notin {"string", "URL"}
        \/ resolved.type = "string" /\ ParseUrl(resolved.value) = Thrown

\* the run r cannot end in a definition, with the registry as it is
RunFails(r) ==
    IF ResolutionFails(r.names.elementName) THEN TRUE
    ELSE \/ LoaderOutcome(r.url) \in {"throw", "reject", "undefined"}
         \/ LoaderOutcome(r.url) = "class" /\ r.names.elementName \in DOMAIN registry

ErrorsIn(cs) == { i \in DOMAIN cs : cs[i].op = "error" }

\* C14: a step that handles events surfaces no error and leaves one pending
\* run per urlResolver call; pending runs only end through their callbacks,
\* one per step; and the callbacks of a failing run surface exactly one
\* error, which carries the run's name, and leave the registry unchanged.
C14_FailureSurfacesOnce ==
    [][/\ lastOp'.op \in {"observe", "deliver"} =>
             /\ ErrorsIn(calls') = {}
             /\ BagCardinality(inflight') =
                   BagCardinality(inflight) + Len(SelectSeq(calls', IsUrlResolver))
       /\ BagCardinality(inflight') < BagCardinality(inflight) =>
             /\ lastOp'.op \in {"then", "catch"}
             /\ BagCardinality(inflight') = BagCardinality(inflight) - 1
       /\ \A r \in DOMAIN inflight :
             (CompletedBy(r) /\ lastOp'.op \in {"then", "catch"} /\ RunFails(r)) =>
                /\ Cardinality(ErrorsIn(calls')) = 1
                /\ \A i \in ErrorsIn(calls') : calls'[i].name = r.names.elementName
                /\ registry' = registry]_vars

\* a run whose urlResolver returned an unparseable string has ended in an error
C14_Witness ==
    /\ lastOp.op = "catch"
    /\ Len(calls) = 1 /\ calls[1].op = "error" /\ calls[1].cause = "SyntaxError"

Constructed == lastOp.op = "new"

\* neither undefined nor null: the caller has supplied something
Supplied(v) == v.type \notin {"undefined", "null"}

\* C15 as stated: the constructor throws exactly if a supplied filter is
\* neither a function nor an array, a supplied urlResolver neither a
\* function nor a Map, or a supplied loader not a function.
C15_Original ==
    (Constructed /\ Supplied(lastOp.options)) =>
        (lastOp.threw <=>
            \/ Supplied(lastOp.options.filter)
                  /\ lastOp.options.filter.type \notin {"function", "array"}
            \/ Supplied(lastOp.options.urlResolver)
                  /\ lastOp.options.urlResolver.type \notin {"function", "map"}
            \/ Supplied(lastOp.options.loader)
                  /\ lastOp.options.loader.type # "function")

\* undefined, null, false, 0 and the empty string are taken as not given
TakenAsAbsent(v) ==
    v \in {Undefined, Null, BooleanValue(FALSE), NumberValue(0), StringValue(<<>>)}

\* C15: the constructor throws exactly if a filter that is not taken as
\* absent is neither a function nor an array, such a urlResolver neither a
\* function nor a Map, or such a loader not a function; when it throws no
\* field is set and nothing is observed; when it does not, every option
\* taken as absent has its default and every other one its given shape.
C15_ConstructorTypeChecks ==
    Constructed =>
        IF TakenAsAbsent(lastOp.options)
        THEN /\ ~lastOp.threw
             /\ filter = NoFilter /\ urlResolver.kind = "default" /\ loader = DefaultLoader
        ELSE LET f == lastOp.options.filter
                 u == lastOp.options.urlResolver
                 l == lastOp.options.loader
             IN  /\ lastOp.threw <=>
                       \/ ~TakenAsAbsent(f) /\ f.type \notin {"function", "array"}
                       \/ ~TakenAsAbsent(u) /\ u.type \notin {"function", "map"}
                       \/ ~TakenAsAbsent(l) /\ l.type # "function"
                 /\ lastOp.threw =>
                       /\ filter = Null /\ urlResolver = Null /\ loader = Null
                       /\ registered = NoRegistrations /\ calls = <<>>
                 /\ ~lastOp.threw =>
                       /\ filter.kind = (IF TakenAsAbsent(f) THEN "null"
                                         ELSE IF f.type = "array" THEN "list" ELSE "function")
                       /\ urlResolver.kind = (IF TakenAsAbsent(u) THEN "default"
                                              ELSE u.type)
                       /\ loader = (IF TakenAsAbsent(l) THEN DefaultLoader ELSE l.fn)

\* the constructor has thrown for a loader that is a string, the other
\* options being valid
C15_Witness ==
    /\ Constructed /\ lastOp.threw
    /\ lastOp.options.type = "object"
    /\ lastOp.options.filter.type = "array"
    /\ lastOp.options.urlResolver.type = "map"
    /\ lastOp.options.loader = StringValue(S_invalid)

\* the contract of the gate for the event of a visit: the name is non-empty,
\* an eligible custom name, not in the registry, and accepted by the filter
\* if there is one
GateContract(visit) ==
    /\ visit.name # <<>>
    /\ IsCustomElementName(visit.name)
    /\ visit.name \notin DOMAIN registry
    /\ (FilterConfigured => visit.name \in filter.allowed)

\* C16: of the events a scan or a delivery handles, those that start a
\* pipeline attempt are, in order, exactly those that meet the contract of
\* the gate.
C16_GateEqualsContract ==
    [][lastOp'.op \in {"observe", "deliver"} =>
          NamesOf(SelectSeq(calls', IsUrlResolver)) =
             NamesOf(SelectSeq(SelectSeq(calls', IsVisit), GateContract))]_vars

\* one step handled an event the filter rejected, one whose name is not
\* eligible, and one that started an attempt
C16_Witness ==
    /\ lastOp.op \in {"observe", "deliver"}
    /\ \E i \in DOMAIN calls : IsFilter(calls[i]) /\ calls[i].name \notin filter.allowed
    /\ \E i \in DOMAIN calls : IsVisit(calls[i]) /\ ~IsCustomElementName(calls[i].name)
    /\ \E i \in DOMAIN calls : IsUrlResolver(calls[i])

\* the stated contract of the validator: a string that starts with a letter
\* a-z, has a hyphen at a 0-based index >= 1 and is not a reserved name
NameContract(v) ==
    /\ v.type = "string"
    /\ v.value # <<>>
    /\ v.value[1] \in 97..122
    /\ \E i \in 2..Len(v.value) : v.value[i] = 45
    /\ v.value \notin INVALID_CUSTOM_ELEMENT_NAMES

\* C17: the validator returns, for every value, whether the value meets the
\* contract; and every name the filter, the urlResolver or the loader is
\* called with meets it.
C17_ValidatorContract ==
    /\ Cardinality(INVALID_CUSTOM_ELEMENT_NAMES) = 8
    /\ lastOp.op = "isCustomElementName" => (lastOp.result <=> NameContract(lastOp.value))
    /\ \A i \in DOMAIN calls :
          calls[i].op \in {"filter", "urlResolver", "loader"} =>
             NameContract(StringValue(calls[i].name))

\* an element whose name the validator rejects has been handled
C17_Witness ==
    /\ lastOp.op = "observe" /\ lastOp.target = NamedElement
    /\ isAttr[NamedElement] = StringValue(<<HYPHEN, A_CHAR, A_CHAR>>)
    /\ Len(calls) = 1 /\ IsVisit(calls[1])

\* s in lower case: the same characters, A-Z replaced by a-z
IsLowerCaseOf(l, s) ==
    /\ Len(l) = Len(s)
    /\ \A i \in 1..Len(s) : l[i] = (IF s[i] \in 65..90 THEN s[i] + 32 ELSE s[i])

\* what the claim says of the names resolved for element e
NamesAsStated(names, e) ==
    /\ IsLowerCaseOf(names.tagName, tagNameOf[e])
    /\ isAttr[e] = Null =>
          names.elementName = names.tagName /\ names.isAttr = Undefined
    /\ isAttr[e] # Null =>
          /\ IsLowerCaseOf(names.elementName, isAttr[e].value)
          /\ names.isAttr = StringValue(names.elementName)

\* C18: the names resolved for an element are the lower-cased tag name and,
\* as element name, the lower-cased 'is' attribute if the element has one
\* (the empty string included) and the lower-cased tag name otherwise; every
\* visit and every run started carries these names; resolving changes nothing.
C18_NamesResolved ==
    [][/\ lastOp'.op = "resolveNames" =>
             /\ NamesAsStated(lastOp'.names, lastOp'.element)
             /\ UNCHANGED << childNodes, isAttr, registry, registered, records, inflight >>
       /\ \A i \in DOMAIN calls' : IsVisit(calls'[i]) =>
             \E names \in {[elementName |-> calls'[i].name,
                             tagName |-> ToLowerCase(tagNameOf[calls'[i].element]),
                             isAttr |-> IF isAttr[calls'[i].element] = Null THEN Undefined
                                        ELSE StringValue(calls'[i].name)]} :
                 NamesAsStated(names, calls'[i].element)
       /\ \A r \in DOMAIN inflight' : NamesAsStated(r.names, r.element)]_vars

\* the names of an element of tag DIV with an 'is' attribute in upper case
\* have been resolved
C18_Witness ==
    /\ lastOp.op = "resolveNames" /\ lastOp.element = NamedElement
    /\ isAttr[NamedElement] = StringValue(<<UPPER_A, HYPHEN, UPPER_A>>)
    /\ lastOp.names.elementName = <<A_CHAR, HYPHEN, A_CHAR>>
    /\ lastOp.names.tagName = S_div

\* runs that have passed the gate for one name and wait for their loads
PendingFor(name) ==
    { r \in RunsIn("loading") : r.names.elementName = name /\ LoaderOutcome(r.url) = "class" }

\* C19: a name that is not registered passes the gate again while a run for
\* it is pending; every pending run whose load yields a class calls define
\* for its name; the call made when the name is registered by then is
\* rejected: the registry stays as it is and one error with the name is
\* surfaced; the call made before registers the class without an error.
C19_DuplicateRace ==
    [][/\ \A i \in DOMAIN calls' :
             (lastOp'.op \in {"observe", "deliver"} /\ IsVisit(calls'[i])
                /\ PendingFor(calls'[i].name) # {} /\ GateContract(calls'[i])) =>
               \E r \in DOMAIN inflight' :
                   /\ r.names.elementName = calls'[i].name
                   /\ CopiesIn(r, inflight') > CopiesIn(r, inflight)
       /\ \A r \in DOMAIN inflight :
             (ThenOf(r) /\ r \in PendingFor(r.names.elementName)) =>
                LET name == r.names.elementName
                IN  /\ Len(SelectSeq(calls', IsDefine)) = 1
                    /\ calls'[1].op = "define" /\ calls'[1].name = name
                    /\ calls'[1].ctor = Ctor(r.url.href)
                    /\ name \in DOMAIN registry =>
                          /\ registry' = registry
                          /\ Cardinality(ErrorsIn(calls')) = 1
                          /\ \A k \in ErrorsIn(calls') : calls'[k].name = name
                    /\ name \notin DOMAIN registry =>
                          /\ registry' = registry @@ (name :> Definition(calls'[1].ctor, calls'[1].extends))
                          /\ ErrorsIn(calls') = {}]_vars

\* the second of two racing runs has had its define rejected, and the
\* registry holds what the first one defined
C19_Witness ==
    /\ lastOp.op = "then"
    /\ Len(calls) = 2 /\ calls[1].op = "define" /\ calls[2].op = "error"
    /\ calls[1].ctor.type = "class"
    /\ calls[1].name \in DOMAIN registry
    /\ registry[calls[1].name].extends # calls[1].extends

\* the name an element goes by: its 'is' attribute if it has one, else its tag
NameOfElement(e) ==
    IF isAttr[e] = Null THEN ToLowerCase(tagNameOf[e]) ELSE ToLowerCase(isAttr[e].value)

\* the nodes the records of a batch report: the target of an attribute
\* change, the nodes added by an append
RECURSIVE ReportedNodes(_)
ReportedNodes(batch) ==
    IF batch = <<>> THEN <<>>
    ELSE (IF Head(batch).type = "attributes" THEN <<Head(batch).target>>
          ELSE Head(batch).addedNodes)
         \o ReportedNodes(Tail(batch))

\* the nodes the step scans or is handed
NodesOfStep ==
    IF lastOp'.op = "deliver" THEN ReportedNodes(records)
    ELSE IF ~lastOp'.scan THEN <<>>
    ELSE IF lastOp'.subtree THEN PreOrder(lastOp'.target)
    ELSE <<lastOp'.target>>

\* the node is an element whose name passes the gate with the registry as
\* it is before the step
PassesGate(n) == IsElement(n) /\ GateContract([name |-> NameOfElement(n)])

\* ... and the urlResolver yields a URL for the name
PassesGateAndResolves(n) == PassesGate(n) /\ ~ResolutionFails(NameOfElement(n))

NamesOfNodes(nodes) == [i \in DOMAIN nodes |-> NameOfElement(nodes[i])]

IsLoader(c) == c.op = "loader"

CallsFor(cs, op, name) == Cardinality({ i \in DOMAIN cs : cs[i].op = op /\ cs[i].name = name })

ElementNames == { NameOfElement(e) : e \in { n \in Nodes : IsElement(n) } }

\* C20 as stated: every occurrence of a name in a scan or batch that passes
\* the gate gets one urlResolver call and one loader call, so k occurrences
\* get k of each.
C20_Original ==
    [][lastOp'.op \in {"observe", "deliver"} =>
          /\ NamesOf(SelectSeq(calls', IsUrlResolver))
                = NamesOfNodes(SelectSeq(NodesOfStep, PassesGate))
          /\ NamesOf(SelectSeq(calls', IsLoader))
                = NamesOfNodes(SelectSeq(NodesOfStep, PassesGate))]_vars

\* C20: a scan or a delivery defines nothing and leaves the registry as it
\* is; every occurrence of a name in it that passes the gate as it is at the
\* start gets one urlResolver call, one pending run and, if the urlResolver
\* yields a URL for the name, one loader call, so k occurrences get k of
\* each, and no other call is made or run started; and each of the runs whose
\* load yields a class calls define once.
C20_GateSeesRegistryAtStart ==
    [][/\ lastOp'.op \in {"observe", "deliver"} =>
             /\ registry' = registry
             /\ ~HasOp(calls', "define")
             /\ NamesOf(SelectSeq(calls', IsUrlResolver))
                   = NamesOfNodes(SelectSeq(NodesOfStep, PassesGate))
             /\ NamesOf(SelectSeq(calls', IsLoader))
                   = NamesOfNodes(SelectSeq(NodesOfStep, PassesGateAndResolves))
             /\ BagCardinality(inflight') =
                   BagCardinality(inflight) + Len(SelectSeq(calls', IsUrlResolver))
       /\ \A r \in DOMAIN inflight :
             (ThenOf(r) /\ LoaderOutcome(r.url) = "class") =>
                /\ CallsFor(calls', "define", r.names.elementName) = 1
                /\ BagCardinality(inflight') = BagCardinality(inflight) - 1]_vars

\* one scan or delivery has called the loader twice for one name
C20_Witness ==
    /\ lastOp.op \in {"observe", "deliver"}
    /\ \E name \in ElementNames : CallsFor(calls, "loader", name) = 2

\* C21: the events of a delivery carry the names the reported elements have
\* when the records are delivered, one event per record, and the urlResolver
\* is called once for each of these events whose name passes the gate, and
\* for no other name: a value the attribute had in between gets no attempt,
\* the value it has at delivery gets one per record.
C21_NamesAtDelivery ==
    [][Delivered =>
          LET reported == SelectSeq(ReportedNodes(records), IsElement)
          IN  /\ NamesOf(SelectSeq(calls', IsVisit)) = NamesOfNodes(reported)
              /\ ElementsOf(SelectSeq(calls', IsVisit)) = reported
              /\ \A i \in DOMAIN calls' :
                    IsUrlResolver(calls'[i]) =>
                       \E k \in DOMAIN reported : NameOfElement(reported[k]) = calls'[i].name
              /\ \A k \in DOMAIN reported :
                    PassesGate(reported[k]) =>
                       CallsFor(calls', "urlResolver", NameOfElement(reported[k]))
                          = Cardinality({ j \in DOMAIN reported :
                                NameOfElement(reported[j]) = NameOfElement(reported[k]) })]_vars

\* the attribute went from y-b to z-c and then to x-a before the delivery:
\* both records were handled as x-a, which got two attempts, z-c none
C21_Witness ==
    /\ lastOp.op = "deliver"
    /\ NamesOf(SelectSeq(calls, IsVisit)) = <<S_x_a, S_x_a>>
    /\ ElementsOf(SelectSeq(calls, IsVisit)) = <<NamedElement, NamedElement>>
    /\ CallsFor(calls, "urlResolver", S_x_a) = 2
    /\ CallsFor(calls, "urlResolver", S_z_c) = 0

\* C22: when a delivered record reports an added element, that element and
\* every element below it are each handled as an added element of their own.
C22_SubtreeElementsProcessed ==
    [][Delivered =>
          \A i \in DOMAIN records :
             records[i].type = "childList" =>
                \A n \in Range(SelectSeq(records[i].addedNodes, IsElement)) :
                   \A d \in Range(PreOrder(n)) :
                      IsElement(d) => d \in Range(ElementsOf(SelectSeq(calls', IsVisit)))]_vars

\* C23: only a scan or a delivery calls the urlResolver or the loader or
\* starts a run, so a run that ends is not tried again by itself; a run that
\* ends in an error or a warning registers nothing; and every event of a scan
\* or delivery whose name passes the gate as the registry is then gets a
\* urlResolver call, whatever became of earlier runs for the name.
C23_NoRetryNoSuppression ==
    [][/\ lastOp'.op \notin {"observe", "deliver"} =>
             /\ ~HasOp(calls', "urlResolver")
             /\ ~HasOp(calls', "loader")
             /\ BagCardinality(inflight') <= BagCardinality(inflight)
       /\ (HasOp(calls', "error") \/ HasOp(calls', "warn")) =>
             /\ lastOp'.op \in {"then", "catch"}
             /\ registry' = registry
       /\ lastOp'.op \in {"observe", "deliver"} =>
             NamesOf(SelectSeq(calls', IsUrlResolver))
                = NamesOfNodes(SelectSeq(NodesOfStep, PassesGate))]_vars

\* a scan or delivery has called the urlResolver for a name whose earlier
\* run reached define and failed there, leaving the name unregistered
C23_Witness ==
    /\ lastOp.op \in {"observe", "deliver"}
    /\ \E i \in DOMAIN calls :
          /\ IsUrlResolver(calls[i])
          /\ calls[i].name \in defineIssued
          /\ calls[i].name \notin DOMAIN registry

\* a run whose load yields a class for a name that is not registered
RegistersClass(r) ==
    /\ r.phase = "loading"
    /\ LoaderOutcome(r.url) = "class"
    /\ r.names.elementName \notin DOMAIN registry

\* C24: a scan or delivery visits every element it is handed and calls the
\* urlResolver for every one passing the gate, also after elements whose run
\* failed at once; a pending load can complete whatever other runs are
\* pending or have failed; and when a load yielding a class for an
\* unregistered name completes, the name is registered with that class.
C24_RunsIndependent ==
    /\ [][lastOp'.op \in {"observe", "deliver"} =>
             /\ ElementsOf(SelectSeq(calls', IsVisit)) = SelectSeq(NodesOfStep, IsElement)
             /\ NamesOf(SelectSeq(calls', IsUrlResolver))
                   = NamesOfNodes(SelectSeq(NodesOfStep, PassesGate))]_vars
    /\ [](\A r \in RunsIn("loading") : ENABLED DefineThen(r))
    /\ [][\A r \in DOMAIN inflight :
             (ThenOf(r) /\ RegistersClass(r)) =>
                /\ r.names.elementName \in DOMAIN registry'
                /\ registry'[r.names.elementName].ctor = Ctor(r.url.href)]_vars

\* a name has just been registered while a run of another name, which the
\* urlResolver failed, has not yet surfaced its error
C24_Witness ==
    /\ lastOp.op = "then"
    /\ \E i \in DOMAIN calls :
          /\ IsDefine(calls[i])
          /\ calls[i].name \in DOMAIN registry
          /\ registry[calls[i].name].ctor = calls[i].ctor
          /\ \E q \in RunsIn("rejected") :
                /\ q.names.elementName # calls[i].name
                /\ q.cause = "urlResolver threw"

\* the urlResolver returns, for the name, something that is neither a string
\* nor a URL, or a string that does not parse
YieldsNoUrl(name) ==
    LET resolved == CallUrlResolver(name)
    IN  \/ resolved.type \notin {"string", "URL", "throw"}
        \/ resolved.type = "string" /\ ParseUrl(resolved.value) = Thrown

IsPipelineCall(c) == c.op \in {"urlResolver", "loader"}

OpsAndNames(cs) == [i \in DOMAIN cs |-> <<cs[i].op, cs[i].name>>]

\* urlResolver and then loader, for each of the nodes in turn
ResolveThenLoad(nodes) ==
    Flatten([i \in DOMAIN nodes |->
        << <<"urlResolver", NameOfElement(nodes[i])>>,
           <<"loader", NameOfElement(nodes[i])>> >>])

\* urlResolver and then, if it yields a URL, loader, for each of the nodes
\* in turn
ResolveThenLoadIfUrl(nodes) ==
    Flatten([i \in DOMAIN nodes |->
        IF ResolutionFails(NameOfElement(nodes[i]))
        THEN << <<"urlResolver", NameOfElement(nodes[i])>> >>
        ELSE << <<"urlResolver", NameOfElement(nodes[i])>>,
                <<"loader", NameOfElement(nodes[i])>> >>])

\* a define call is made by the step in which a pending load completes, for
\* the name of that load, and it is the only one of the step
DefineFollowsLoad ==
    \A i \in DOMAIN calls' :
        IsDefine(calls'[i]) =>
           /\ lastOp'.op = "then"
           /\ \E r \in RunsIn("loading") :
                 CompletedBy(r) /\ r.names.elementName = calls'[i].name
           /\ \A j \in DOMAIN calls' : IsDefine(calls'[j]) => j = i

\* C26 as stated: when a scan or a delivery returns, urlResolver and then
\* loader have been called for every element that passed the gate, in visit
\* or record order, and nothing has been defined; a define call is made
\* only when a load completes, for that load.
C26_Original ==
    [][/\ lastOp'.op \in {"observe", "deliver"} =>
             /\ OpsAndNames(SelectSeq(calls', IsPipelineCall))
                   = ResolveThenLoad(SelectSeq(NodesOfStep, PassesGate))
             /\ ~HasOp(calls', "define")
             /\ registry' = registry
       /\ DefineFollowsLoad]_vars

\* C26: when a scan or a delivery returns, the urlResolver and then, if it
\* yielded a URL or a string that parses as one, the loader have been called
\* for every element that passed the gate, in visit or record order, and
\* nothing has been defined; a define call is made only when a load
\* completes, for that load.
C26_SynchronousStartDeferredDefine ==
    [][/\ lastOp'.op \in {"observe", "deliver"} =>
             /\ OpsAndNames(SelectSeq(calls', IsPipelineCall))
                   = ResolveThenLoadIfUrl(SelectSeq(NodesOfStep, PassesGate))
             /\ ~HasOp(calls', "define")
             /\ registry' = registry
       /\ DefineFollowsLoad]_vars

\* a scan or delivery has returned with urlResolver, loader, urlResolver,
\* loader called for two different names, both loads pending and neither
\* name registered
C26_Witness ==
    /\ lastOp.op \in {"observe", "deliver"}
    /\ LET pipeline == SelectSeq(calls, IsPipelineCall)
       IN  /\ Len(pipeline) = 4
           /\ [i \in 1..4 |-> pipeline[i].op]
                 = <<"urlResolver", "loader", "urlResolver", "loader">>
           /\ pipeline[1].name = pipeline[2].name
           /\ pipeline[3].name = pipeline[4].name
           /\ pipeline[1].name # pipeline[3].name
           /\ \A i \in 1..4 :
                 /\ pipeline[i].name \notin DOMAIN registry
                 /\ \E r \in RunsIn("loading") : r.names.elementName = pipeline[i].name
    /\ ~HasOp(calls, "define")

====
